---- MODULE Spec2Model ----
(***************************************************************************)
(* Card centering analysis (card_centering.py) and its HTTP front          *)
(* (api_server.py).                                                        *)
(*                                                                         *)
(* Numbers that are Python floats in the source are modelled as exact      *)
(* rationals <<n, d>> in lowest terms with d > 0, so that equality of two  *)
(* numbers is equality of their representations.                           *)
(***************************************************************************)
EXTENDS Integers, Sequences, FiniteSets, TLC

VARIABLES
    pc,        \* position of the request handler `analyze`
    req,       \* the CenteringRequest being served
    files,     \* the files written by download_image, by side
    side,      \* the side analyze_centering is working on
    locals,    \* locals of analyze_centering, by side
    centering_grade,
    result,    \* return value of analyze_centering (None until returned)
    response,  \* JSON body returned by `analyze` (None until returned)
    exc,       \* the exception that left the handler (None if none)
    calls,     \* the calls analyze_centering has made, in order
    fn,        \* unit harness: the function under call
    args,      \* unit harness: its arguments
    ret        \* unit harness: its return value (None before the call)

vars == <<pc, req, files, side, locals, centering_grade, result, response,
          exc, calls, fn, args, ret>>

appVars == <<pc, req, files, side, locals, centering_grade, result,
             response, exc, calls>>

unitVars == <<fn, args, ret>>

None == <<>>

Some(x) == <<x>>

-----------------------------------------------------------------------------
(* Exact arithmetic on rationals.                                          *)

Abs(n) == IF n < 0 THEN -n ELSE n

RECURSIVE GCD(_, _)
GCD(a, b) == IF b = 0 THEN a ELSE GCD(b, a % b)

Rat(n, d) ==
    LET s == IF d < 0 THEN -1 ELSE 1
        g == GCD(Abs(n), Abs(d))
    IN  <<(s * n) \div g, (s * d) \div g>>

Float(i) == <<i, 1>>

RAdd(p, q) == Rat(p[1] * q[2] + q[1] * p[2], p[2] * q[2])

RMul(p, q) == Rat(p[1] * q[1], p[2] * q[2])

RDiv(p, q) == Rat(p[1] * q[2], p[2] * q[1])

RLeq(p, q) == p[1] * q[2] <= q[1] * p[2]

RGeq(p, q) == RLeq(q, p)

\* Python's min(a, b): b only when b < a.
RMin(p, q) == IF RLeq(p, q) THEN p ELSE q

-----------------------------------------------------------------------------
(* 4. PSA-style axis ratio.                                                *)

compute_psa_axis_ratio_worse_a(border_a, border_b) ==
    LET total == RAdd(border_a, border_b)
    IN  IF RLeq(total, Float(0))
        THEN Float(0)
        ELSE RMul(RDiv(border_a, total), Float(100))

compute_psa_axis_ratio_better(border_a, border_b) ==
    LET total == RAdd(border_a, border_b)
    IN  IF RLeq(total, Float(0))
        THEN Float(0)
        ELSE LET better == IF RLeq(border_a, border_b) THEN border_b
                           ELSE border_a
             IN  RMul(RDiv(better, total), Float(100))

compute_psa_axis_ratio_clamped(border_a, border_b) ==
    LET total == RAdd(border_a, border_b)
    IN  IF RLeq(total, Float(0))
        THEN Float(0)
        ELSE LET r == RMul(RDiv(RMin(border_a, border_b), total), Float(100))
             IN  IF RLeq(r, Float(0)) THEN Float(0) ELSE r

compute_psa_axis_ratio(border_a, border_b) ==
    LET total == RAdd(border_a, border_b)
    IN  IF RLeq(total, Float(0))
        THEN Float(0)
        ELSE LET worse == RMin(border_a, border_b)
                 ratio == RDiv(worse, total)
             IN  RMul(ratio, Float(100))

compute_psa_centering_ratio_from_borders_h(borders) ==
    LET horizontal_ratio == compute_psa_axis_ratio(borders.left, borders.right)
        vertical_ratio == compute_psa_axis_ratio(borders.top, borders.bottom)
        limiting_ratio == horizontal_ratio
        details == [horizontal_ratio_percent |-> horizontal_ratio,
                    vertical_ratio_percent |-> vertical_ratio,
                    limiting_ratio_percent |-> limiting_ratio]
    IN  <<limiting_ratio, details>>

compute_psa_centering_ratio_from_borders(borders) ==
    LET left == borders.left
        right == borders.right
        top == borders.top
        bottom == borders.bottom
        horizontal_ratio == compute_psa_axis_ratio(left, right)
        vertical_ratio == compute_psa_axis_ratio(top, bottom)
        limiting_ratio == RMin(horizontal_ratio, vertical_ratio)
        details == [horizontal_ratio_percent |-> horizontal_ratio,
                    vertical_ratio_percent |-> vertical_ratio,
                    limiting_ratio_percent |-> limiting_ratio]
    IN  <<limiting_ratio, details>>

-----------------------------------------------------------------------------
(* 5. Grade from the two limiting percentages.                             *)

map_psa_centering_grade_reordered(front_ratio, back_ratio) ==
    IF RGeq(front_ratio, Float(20)) THEN 5
    ELSE IF RGeq(front_ratio, Float(45)) /\ RGeq(back_ratio, Float(25)) THEN 10
    ELSE IF RGeq(front_ratio, Float(40)) /\ RGeq(back_ratio, Float(20)) THEN 9
    ELSE IF RGeq(front_ratio, Float(35)) /\ RGeq(back_ratio, Float(15)) THEN 8
    ELSE IF RGeq(front_ratio, Float(30)) /\ RGeq(back_ratio, Float(10)) THEN 7
    ELSE IF RGeq(front_ratio, Float(25)) /\ RGeq(back_ratio, Float(10)) THEN 6
    ELSE 4

map_psa_centering_grade_flipped(front_ratio, back_ratio) ==
    IF RGeq(front_ratio, Float(45)) /\ RGeq(back_ratio, Float(25)) THEN 10
    ELSE IF RGeq(front_ratio, Float(40)) /\ RLeq(back_ratio, Float(20)) THEN 9
    ELSE IF RGeq(front_ratio, Float(35)) /\ RGeq(back_ratio, Float(15)) THEN 8
    ELSE IF RGeq(front_ratio, Float(30)) /\ RGeq(back_ratio, Float(10)) THEN 7
    ELSE IF RGeq(front_ratio, Float(25)) /\ RGeq(back_ratio, Float(10)) THEN 6
    ELSE IF RGeq(front_ratio, Float(20)) THEN 5
    ELSE 4

map_psa_centering_grade(front_ratio, back_ratio) ==
    IF RGeq(front_ratio, Float(45)) /\ RGeq(back_ratio, Float(25)) THEN 10
    ELSE IF RGeq(front_ratio, Float(40)) /\ RGeq(back_ratio, Float(20)) THEN 9
    ELSE IF RGeq(front_ratio, Float(35)) /\ RGeq(back_ratio, Float(15)) THEN 8
    ELSE IF RGeq(front_ratio, Float(30)) /\ RGeq(back_ratio, Float(10)) THEN 7
    ELSE IF RGeq(front_ratio, Float(25)) /\ RGeq(back_ratio, Float(10)) THEN 6
    ELSE IF RGeq(front_ratio, Float(20)) THEN 5
    ELSE 4

-----------------------------------------------------------------------------
(* Images.  What the cv2 pipeline (cvtColor, GaussianBlur, Canny,          *)
(* findContours, approxPolyDP, boundingRect) extracts from a file is part  *)
(* of the input: whether the file decodes, the external contours of the    *)
(* whole image and the contour tree of the crop to the outer box, each     *)
(* contour given by its area and the bounding rectangle <<x, y, w, h>> of  *)
(* its simplified polygon.                                                 *)

MaxOffset == 4

InnerSize == 6

OuterSize == InnerSize + MaxOffset

CardContour == [area |-> OuterSize * OuterSize,
                rect |-> <<3, 2, OuterSize, OuterSize>>]

CropContour == [area |-> OuterSize * OuterSize,
                rect |-> <<0, 0, OuterSize, OuterSize>>]

SpeckContour == [area |-> 1, rect |-> <<0, 0, 2, 2>>]

Undecodable == [decodable |-> FALSE, external |-> <<>>, tree |-> <<>>]

Blank == [decodable |-> TRUE, external |-> <<>>, tree |-> <<>>]

Borderless == [decodable |-> TRUE, external |-> <<CardContour>>,
               tree |-> <<CropContour>>]

CardImage(ax, ay) ==
    [decodable |-> TRUE,
     external |-> <<SpeckContour, CardContour>>,
     tree |-> <<[area |-> InnerSize * InnerSize,
                 rect |-> <<ax, ay, InnerSize, InnerSize>>],
                CropContour,
                SpeckContour>>]

Images == {Undecodable, Blank, Borderless}
            \cup {CardImage(ax, ay) : ax \in 0..MaxOffset, ay \in 0..MaxOffset}

URLs == {"u1", "u2"}

CardIds == {"c1", "c2"}

Statuses == {200, 404}

Sides == {"front", "back"}

-----------------------------------------------------------------------------
(* Raising and returning.                                                  *)

Raise(type, msg) == [ok |-> FALSE, exc |-> [type |-> type, msg |-> msg],
                     value |-> None]

Return(v) == [ok |-> TRUE, exc |-> [type |-> "", msg |-> <<>>], value |-> v]

\* max(contours, key=cv2.contourArea): the first contour of maximal area.
RECURSIVE MaxByArea(_)
MaxByArea(contours) ==
    IF Len(contours) = 1 THEN contours[1]
    ELSE LET m == MaxByArea(SubSeq(contours, 1, Len(contours) - 1))
             l == contours[Len(contours)]
         IN  IF l.area > m.area THEN l ELSE m

\* sorted(contours, key=cv2.contourArea, reverse=True): stable.
RECURSIVE InsertByArea(_, _)
InsertByArea(c, sorted) ==
    IF sorted = <<>> THEN <<c>>
    ELSE IF Head(sorted).area > c.area
         THEN <<Head(sorted)>> \o InsertByArea(c, Tail(sorted))
         ELSE <<c>> \o sorted

RECURSIVE SortedByAreaDesc(_)
SortedByAreaDesc(contours) ==
    IF contours = <<>> THEN <<>>
    ELSE InsertByArea(Head(contours), SortedByAreaDesc(Tail(contours)))

(* 1. Outer border.  The dash of the source's message is written "-".      *)
detect_card_border_fallback(image) ==
    IF Len(image.external) = 0
    THEN Return(<<0, 0, OuterSize, OuterSize>>)
    ELSE Return(MaxByArea(image.external).rect)

detect_card_border(image) ==
    LET contours == image.external
    IN  IF Len(contours) = 0
        THEN Raise("ValueError",
                   <<"No contours found - cannot detect card border.">>)
        ELSE Return(MaxByArea(contours).rect)

(* 2. Inner artwork rectangle, in full-image coordinates.                  *)
detect_artwork_rectangle(image, outer_box) ==
    LET ox == outer_box[1]
        oy == outer_box[2]
        contours == image.tree
    IN  IF Len(contours) < 2
        THEN Raise("ValueError", <<"Not enough contours to detect artwork.">>)
        ELSE LET artwork_contour == SortedByAreaDesc(contours)[2]
                 r == artwork_contour.rect
             IN  Return(<<ox + r[1], oy + r[2], r[3], r[4]>>)

(* 3. Border thickness.                                                    *)
compute_border_thickness(outer, inner) ==
    LET ox == outer[1]
        oy == outer[2]
        ow == outer[3]
        oh == outer[4]
        ix == inner[1]
        iy == inner[2]
        iw == inner[3]
        ih == inner[4]
    IN  [left |-> Float(ix - ox),
         right |-> Float((ox + ow) - (ix + iw)),
         top |-> Float(iy - oy),
         bottom |-> Float((oy + oh) - (iy + ih))]

\* dict.get(key): the value, or None when the key is absent.
Get(d, key) == IF key \in DOMAIN d THEN Some(d[key]) ELSE None

-----------------------------------------------------------------------------
(* The request handler POST /analyze_centering and analyze_centering.      *)

NoRequest == [front_image_url |-> "", back_image_url |-> "", card_id |-> ""]

NoFiles == [s \in Sides |-> None]

NoLocals ==
    [s \in Sides |-> [img |-> None, outer |-> None, inner |-> None,
                      borders |-> None, center_ratio |-> None,
                      ratio_details |-> None]]

AppIdle ==
    /\ pc = "idle"
    /\ req = NoRequest
    /\ files = NoFiles
    /\ side = "front"
    /\ locals = NoLocals
    /\ centering_grade = None
    /\ result = None
    /\ response = None
    /\ exc = None
    /\ calls = <<>>

UnitIdle ==
    /\ fn = ""
    /\ args = <<>>
    /\ ret = None

Init == AppIdle /\ UnitIdle

\* f"{uuid.uuid4().hex}.png": the name says nothing of the side.
Filename == "uuid4hex.png"

UrlOf(s) == IF s = "front" THEN req.front_image_url ELSE req.back_image_url

\* An exception nobody catches leaves the handler: the request has failed.
Fail(e) ==
    /\ pc' = "failed"
    /\ exc' = Some(e)

\* analyze(req): FastAPI hands the handler a validated CenteringRequest.
Receive ==
    /\ pc = "idle"
    /\ \E f \in URLs, b \in URLs, c \in CardIds :
           req' = [front_image_url |-> f, back_image_url |-> b, card_id |-> c]
    /\ side' = "front"
    /\ pc' = "download_image"
    /\ UNCHANGED <<files, locals, centering_grade, result, response, exc,
                   calls, unitVars>>

\* download_image(url), front first and then back.
download_image ==
    /\ pc = "download_image"
    /\ \E status \in Statuses, body \in Images :
           IF status = 200
           THEN /\ files' = [files EXCEPT ![side] = Some(body)]
                /\ IF side = "front"
                   THEN side' = "back" /\ pc' = "download_image"
                   ELSE side' = "front" /\ pc' = "imread"
                /\ UNCHANGED exc
           ELSE /\ Fail([type |-> "Exception",
                         msg |-> <<"Failed to download image:", UrlOf(side)>>])
                /\ UNCHANGED <<files, side>>
    /\ UNCHANGED <<req, locals, centering_grade, result, response, calls,
                   unitVars>>

\* cv2.imread(path) and the guard on None.
imread ==
    /\ pc = "imread"
    /\ calls' = Append(calls, <<"imread", side>>)
    /\ LET file == files[side][1]
       IN  IF file.decodable
           THEN /\ locals' = [locals EXCEPT ![side].img = Some(file)]
                /\ pc' = "detect_card_border"
                /\ UNCHANGED exc
           ELSE /\ Fail([type |-> "FileNotFoundError",
                         msg |-> <<"Could not read", side, "image:",
                                   Filename>>])
                /\ UNCHANGED locals
    /\ UNCHANGED <<req, files, side, centering_grade, result, response,
                   unitVars>>

call_detect_card_border ==
    /\ pc = "detect_card_border"
    /\ calls' = Append(calls, <<"detect_card_border", side>>)
    /\ LET r == detect_card_border(locals[side].img[1])
       IN  IF r.ok
           THEN /\ locals' = [locals EXCEPT ![side].outer = Some(r.value)]
                /\ pc' = "detect_artwork_rectangle"
                /\ UNCHANGED exc
           ELSE /\ Fail(r.exc)
                /\ UNCHANGED locals
    /\ UNCHANGED <<req, files, side, centering_grade, result, response,
                   unitVars>>

call_detect_artwork_rectangle ==
    /\ pc = "detect_artwork_rectangle"
    /\ calls' = Append(calls, <<"detect_artwork_rectangle", side>>)
    /\ LET r == detect_artwork_rectangle(locals[side].img[1],
                                         locals[side].outer[1])
       IN  IF r.ok
           THEN /\ locals' = [locals EXCEPT ![side].inner = Some(r.value)]
                /\ pc' = "compute_border_thickness"
                /\ UNCHANGED exc
           ELSE /\ Fail(r.exc)
                /\ UNCHANGED locals
    /\ UNCHANGED <<req, files, side, centering_grade, result, response,
                   unitVars>>

call_compute_border_thickness ==
    /\ pc = "compute_border_thickness"
    /\ calls' = Append(calls, <<"compute_border_thickness", side>>)
    /\ locals' = [locals EXCEPT ![side].borders =
                      Some(compute_border_thickness(locals[side].outer[1],
                                                    locals[side].inner[1]))]
    /\ pc' = "compute_psa_centering_ratio_from_borders"
    /\ UNCHANGED <<req, files, side, centering_grade, result, response, exc,
                   unitVars>>

call_compute_psa_centering_ratio_from_borders ==
    /\ pc = "compute_psa_centering_ratio_from_borders"
    /\ calls' = Append(calls,
                       <<"compute_psa_centering_ratio_from_borders", side>>)
    /\ LET r == compute_psa_centering_ratio_from_borders(
                    locals[side].borders[1])
       IN  locals' = [locals EXCEPT ![side].center_ratio = Some(r[1]),
                                    ![side].ratio_details = Some(r[2])]
    /\ IF side = "front"
       THEN side' = "back" /\ pc' = "imread"
       ELSE side' = side /\ pc' = "map_psa_centering_grade"
    /\ UNCHANGED <<req, files, centering_grade, result, response, exc,
                   unitVars>>

call_map_psa_centering_grade ==
    /\ pc = "map_psa_centering_grade"
    /\ calls' = Append(calls, <<"map_psa_centering_grade", "both">>)
    /\ centering_grade' =
           Some(map_psa_centering_grade(locals["front"].center_ratio[1],
                                        locals["back"].center_ratio[1]))
    /\ pc' = "return"
    /\ UNCHANGED <<req, files, side, locals, result, response, exc, unitVars>>

SideResult(l) ==
    [outer_border |-> l.outer[1],
     artwork_rectangle |-> l.inner[1],
     borders |-> l.borders[1],
     ratios |-> l.ratio_details[1],
     psa_centering_ratio |-> l.center_ratio[1]]

Summary(front_center_ratio, back_center_ratio, grade) ==
    [frontCenteringRatio |-> front_center_ratio,
     backCenteringRatio |-> back_center_ratio,
     centeringGrade |-> grade]

ResultOf(l, grade) ==
    [front |-> SideResult(l["front"]),
     back |-> SideResult(l["back"]),
     summary |-> Summary(l["front"].center_ratio[1],
                         l["back"].center_ratio[1], grade)]

\* The result structure is built and returned to `analyze`.
analyze_centering_return ==
    /\ pc = "return"
    /\ result' = Some(ResultOf(locals, centering_grade[1]))
    /\ pc' = "respond"
    /\ UNCHANGED <<req, files, side, locals, centering_grade, response, exc,
                   calls, unitVars>>

ResponseOf_summary(r, request) ==
    [success |-> TRUE,
     card_id |-> request.card_id,
     psa_grade |-> Get(r.summary, "centeringGrade"),
     ratio |-> Get(r.summary, "frontCenteringRatio"),
     centered |-> Get(r, "centered")]

ResponseOf(r, request) ==
    [success |-> TRUE,
     card_id |-> request.card_id,
     psa_grade |-> Get(r, "psa_grade"),
     ratio |-> Get(r, "ratio"),
     centered |-> Get(r, "centered")]

\* JSONResponse(content={...}).
respond ==
    /\ pc = "respond"
    /\ response' = Some(ResponseOf(result[1], req))
    /\ pc' = "responded"
    /\ UNCHANGED <<req, files, side, locals, centering_grade, result, exc,
                   calls, unitVars>>

\* The request is over; every value of it is discarded and the server
\* waits for the next one.
NextRequest ==
    /\ pc \in {"responded", "failed"}
    /\ pc' = "idle"
    /\ req' = NoRequest
    /\ files' = NoFiles
    /\ side' = "front"
    /\ locals' = NoLocals
    /\ centering_grade' = None
    /\ result' = None
    /\ response' = None
    /\ exc' = None
    /\ calls' = <<>>
    /\ UNCHANGED unitVars

Next ==
    \/ Receive
    \/ download_image
    \/ imread
    \/ call_detect_card_border
    \/ call_detect_artwork_rectangle
    \/ call_compute_border_thickness
    \/ call_compute_psa_centering_ratio_from_borders
    \/ call_map_psa_centering_grade
    \/ analyze_centering_return
    \/ respond
    \/ NextRequest

Spec == Init /\ [][Next]_vars

-----------------------------------------------------------------------------
(* The pure functions called directly, on arguments the pipeline itself    *)
(* need not produce (negative and fractional gaps, arbitrary percentages). *)

MaxGap == 4

MaxDen == 2

MaxBorderGap == 3

MaxStep == 21

GapValues ==
    {Rat(n, d) : n \in -MaxGap..MaxGap, d \in 1..MaxDen}
        \cup {Float(n) : n \in {40, 45, 50, 55, 60}}

BorderValues ==
    {Float(n) : n \in -1..MaxBorderGap} \cup {Float(n) : n \in {40, 45, 55, 60}}

Percents ==
    {Rat(5 * n, 2) : n \in -1..MaxStep} \cup {Float(n) : n \in {26, 41, 46}}

UnitCalls ==
    {<<"compute_psa_axis_ratio", <<a, b>>>> : a \in GapValues, b \in GapValues}
        \cup {<<"compute_psa_centering_ratio_from_borders",
                <<[left |-> l, right |-> r, top |-> t, bottom |-> b]>>>> :
                  l \in BorderValues, r \in BorderValues,
                  t \in BorderValues, b \in BorderValues}
        \cup {<<"map_psa_centering_grade", <<f, b>>>> :
                  f \in Percents, b \in Percents}

InitUnit ==
    /\ AppIdle
    /\ \E c \in UnitCalls : fn = c[1] /\ args = c[2]
    /\ ret = None

apply_compute_psa_axis_ratio ==
    /\ fn = "compute_psa_axis_ratio"
    /\ ret = None
    /\ ret' = Some(compute_psa_axis_ratio(args[1], args[2]))
    /\ UNCHANGED <<fn, args, appVars>>

apply_compute_psa_centering_ratio_from_borders ==
    /\ fn = "compute_psa_centering_ratio_from_borders"
    /\ ret = None
    /\ ret' = Some(compute_psa_centering_ratio_from_borders(args[1]))
    /\ UNCHANGED <<fn, args, appVars>>

apply_map_psa_centering_grade ==
    /\ fn = "map_psa_centering_grade"
    /\ ret = None
    /\ ret' = Some(map_psa_centering_grade(args[1], args[2]))
    /\ UNCHANGED <<fn, args, appVars>>

NextUnit ==
    \/ apply_compute_psa_axis_ratio
    \/ apply_compute_psa_centering_ratio_from_borders
    \/ apply_map_psa_centering_grade

SpecUnit == InitUnit /\ [][NextUnit]_vars

-----------------------------------------------------------------------------
(* Properties of the grade mapper (SpecUnit).                              *)

GradeReturned == fn = "map_psa_centering_grade" /\ ret # None

\* The rule table of the grade mapper: the least front and back
\* percentages of each grade above the floor.
FrontAtLeast(g) ==
    CASE g = 10 -> 45 [] g = 9 -> 40 [] g = 8 -> 35
      [] g = 7 -> 30 [] g = 6 -> 25 [] g = 5 -> 20

BackConstrained(g) == g >= 6

BackAtLeast(g) ==
    CASE g = 10 -> 25 [] g = 9 -> 20 [] g = 8 -> 15 [] g = 7 -> 10 [] g = 6 -> 10

RuleMatches(g, f, b) ==
    /\ RGeq(f, Float(FrontAtLeast(g)))
    /\ BackConstrained(g) => RGeq(b, Float(BackAtLeast(g)))

C2_Monotonic ==
    GradeReturned =>
        \A p \in Percents :
            /\ RLeq(args[1], p) => ret[1] <= map_psa_centering_grade(p, args[2])
            /\ RLeq(args[2], p) => ret[1] <= map_psa_centering_grade(args[1], p)

C2_Witness ==
    /\ GradeReturned
    /\ args = <<Float(40), Float(20)>>
    /\ ret = Some(9)
    /\ map_psa_centering_grade(Float(40), Float(25)) = 9
    /\ map_psa_centering_grade(Float(45), Float(25)) = 10

-----------------------------------------------------------------------------
(* Properties of the ratio engine (SpecUnit).                              *)

AxisReturned == fn = "compute_psa_axis_ratio" /\ ret # None

\* C4: compute_psa_axis_ratio is symmetric in its two arguments, negative
\* and zero gaps included.
C4_Symmetric ==
    AxisReturned => ret[1] = compute_psa_axis_ratio(args[2], args[1])

C4_Witness ==
    /\ AxisReturned
    /\ args = <<Float(-1), Float(3)>>
    /\ ret = Some(Float(-50))

C6_AxisRatioRange ==
    (/\ AxisReturned
     /\ RGeq(args[1], Float(0))
     /\ RGeq(args[2], Float(0))
     /\ ~RLeq(RAdd(args[1], args[2]), Float(0)))
        => RGeq(ret[1], Float(0)) /\ RLeq(ret[1], Float(50))

C6_Witness ==
    /\ AxisReturned
    /\ args = <<Float(1), Float(3)>>
    /\ ret = Some(Float(25))

BordersReturned ==
    fn = "compute_psa_centering_ratio_from_borders" /\ ret # None

\* C7: compute_psa_centering_ratio_from_borders returns horizontal =
\* axisRatio(left, right), vertical = axisRatio(top, bottom) and limiting =
\* min(horizontal, vertical); its first element equals the limiting value of
\* the details; gaps {55, 45, 60, 40} give 45, 40 and limiting 40.
C7_LimitingRatio ==
    BordersReturned =>
        LET g == args[1]
            first == ret[1][1]
            d == ret[1][2]
            h == d.horizontal_ratio_percent
            v == d.vertical_ratio_percent
            lim == d.limiting_ratio_percent
        IN  /\ h = compute_psa_axis_ratio(g.left, g.right)
            /\ v = compute_psa_axis_ratio(g.top, g.bottom)
            /\ lim \in {h, v}
            /\ RLeq(lim, h) /\ RLeq(lim, v)
            /\ first = lim
            /\ g = [left |-> Float(55), right |-> Float(45),
                    top |-> Float(60), bottom |-> Float(40)]
                 => h = Float(45) /\ v = Float(40) /\ first = Float(40)

C7_Witness ==
    /\ BordersReturned
    /\ args[1] = [left |-> Float(55), right |-> Float(45),
                  top |-> Float(60), bottom |-> Float(40)]
    /\ ret[1][1] = Float(40)

-----------------------------------------------------------------------------
(* Properties of analyze_centering and of the handler (Spec).              *)

StageFails(stage, image) ==
    CASE stage = "imread" -> ~image.decodable
      [] stage = "detect_card_border" -> Len(image.external) = 0
      [] stage = "detect_artwork_rectangle" -> Len(image.tree) < 2
      [] OTHER -> FALSE

Detectable(image) ==
    /\ image.decodable
    /\ Len(image.external) >= 1
    /\ Len(image.tree) >= 2

SideCalls(s) ==
    <<<<"imread", s>>, <<"detect_card_border", s>>,
      <<"detect_artwork_rectangle", s>>, <<"compute_border_thickness", s>>,
      <<"compute_psa_centering_ratio_from_borders", s>>>>

AnalysisFailed == exc # None /\ calls # <<>>

LastCall == calls[Len(calls)]

\* C3: analyze_centering returns a result only when the read, border
\* detection, artwork detection, gap measurement and ratio computation have
\* succeeded, once each, for the front and for the back; when the read or a
\* detection stage fails on either side the failure leaves the function at
\* that stage, no stage is retried, no rectangle is made up, the grade
\* mapper is not called and no result, partial or whole, is returned.
C3_AllOrNothing ==
    /\ result # None =>
           /\ \A s \in Sides :
                  /\ Detectable(files[s][1])
                  /\ \A k \in DOMAIN locals[s] : locals[s][k] # None
           /\ calls = SideCalls("front") \o SideCalls("back")
                          \o <<<<"map_psa_centering_grade", "both">>>>
    /\ \A s \in Sides :
           /\ locals[s].outer # None => Len(files[s][1].external) >= 1
           /\ locals[s].inner # None => Len(files[s][1].tree) >= 2
    /\ AnalysisFailed =>
           /\ pc = "failed"
           /\ result = None
           /\ response = None
           /\ centering_grade = None
           /\ \A i \in DOMAIN calls : calls[i][1] # "map_psa_centering_grade"
           /\ \A i, j \in DOMAIN calls : calls[i] = calls[j] => i = j
           /\ StageFails(LastCall[1], files[LastCall[2]][1])
    /\ (/\ pc \in {"failed", "return", "respond", "responded"}
        /\ calls # <<>>
        /\ \E s \in Sides : ~Detectable(files[s][1]))
           => AnalysisFailed

C3_Witness ==
    /\ AnalysisFailed
    /\ LastCall = <<"detect_artwork_rectangle", "back">>
    /\ locals["front"].center_ratio # None
    /\ result = None

\* Rounding to an integer as Python formats and rounds: half to even.
RoundHalfEven(p) ==
    LET fl == p[1] \div p[2]
        twice == 2 * (p[1] - fl * p[2])
    IN  IF twice < p[2] THEN fl
        ELSE IF twice > p[2] THEN fl + 1
        ELSE IF fl % 2 = 0 THEN fl ELSE fl + 1

RatioLabel(p) ==
    <<RoundHalfEven(RAdd(Float(100), RMul(Float(-1), p))), "/",
      RoundHalfEven(p)>>

DisplayFields ==
    {"frontRatioString", "backRatioString", "frontRatioValue",
     "backRatioValue"}

\* C8: the result of a successful analysis carries, for each side, a ratio
\* label "{100 - p}/{p}" rounded to integers and a ratio fraction p / 100 of
\* that side's limiting percent p, under the names frontRatioString,
\* backRatioString, frontRatioValue and backRatioValue, alongside
\* frontCenteringRatio, backCenteringRatio and centeringGrade.
C8_DisplayFields ==
    result # None =>
        LET sm == result[1].summary
            pf == locals["front"].center_ratio[1]
            pb == locals["back"].center_ratio[1]
        IN  /\ {"frontCenteringRatio", "backCenteringRatio",
                "centeringGrade"} \subseteq DOMAIN sm
            /\ DisplayFields \subseteq DOMAIN sm
            /\ sm.frontRatioString = RatioLabel(pf)
            /\ sm.backRatioString = RatioLabel(pb)
            /\ sm.frontRatioValue = RDiv(pf, Float(100))
            /\ sm.backRatioValue = RDiv(pb, Float(100))

\* What the message of an exception says of the stage that raised it.
StageNamedBy(e) ==
    CASE e.msg[1] = "Could not read" -> "imread"
      [] e.msg[1] = "No contours found - cannot detect card border."
            -> "detect_card_border"
      [] e.msg[1] = "Not enough contours to detect artwork."
            -> "detect_artwork_rectangle"
      [] OTHER -> "unknown"

NamesSide(e, s) == \E i \in DOMAIN e.msg : e.msg[i] = s

\* C9: every failure raised out of analyze_centering (undecodable image, no
\* outer contour, fewer than two contours for the artwork) reaches the
\* caller with enough context to tell which side and which stage failed.
C9_FailureNamesSideAndStage ==
    AnalysisFailed =>
        /\ StageNamedBy(exc[1]) = LastCall[1]
        /\ NamesSide(exc[1], LastCall[2])

====
